---- MODULE Spec2Model ----
(***************************************************************************)
(* The FM-index of project1/solution/humdum/index/wt.py: class WaveletTree *)
(* (suffix array builders, BWT, C-table, wavelet tree with bucketed rank   *)
(* dictionaries, sampled suffix array with LF-walk recovery).              *)
(*                                                                         *)
(* Python lists, strings and bit arrays are sequences; the element the     *)
(* code writes x[i] (0-based) is At(x, i).  A query returns a record       *)
(* [err, val]: err = "ok" and the returned value, or the name of the       *)
(* exception the call raises.                                              *)
(***************************************************************************)
EXTENDS Integers, Sequences, FiniteSets, TLC

(* ------------------------------ bounds -------------------------------- *)

\* references over the full alphabet have at most MaxLen symbols
MaxLen == 3
\* references over {A, C} have at most MaxRunLen symbols (long enough for
\* the recursive branch of the Kaerkkaeinen-Sanders builder)
MaxRunLen == 5
\* compression_sa ranges over 0 .. MaxComp
MaxComp == 3
\* query indices range over -IdxSlack .. n - 1 + IdxSlack
IdxSlack == 2
\* backward-search patterns have 1 .. MaxPat symbols
MaxPat == 2
\* references that hold the sentinel anywhere have at most MaxSentinels symbols
MaxSentinels == 3

(* --------------------------- Python values ---------------------------- *)

Alphabet == {"A", "C", "G", "N", "T"}
Symbols == {"$"} \cup Alphabet

At(x, i) == x[i + 1]
Upd(x, i, v) == [x EXCEPT ![i + 1] = v]
\* the list [0] * m
RECURSIVE Zeros(_)
Zeros(m) == IF m <= 0 THEN <<>> ELSE Append(Zeros(m - 1), 0)
Max(a, b) == IF a >= b THEN a ELSE b

\* The value e, x being evaluated first.  TLC evaluates an operator's
\* arguments when they are first used; a loop that hands on its lists
\* unevaluated nests one evaluation per iteration.
Strict(x, e) == IF x = x THEN e ELSE e

\* x = v followed by the statements F, which read x
Let(v, F(_)) == Strict(v, F(v))

\* the list with the elements f[1], ..., f[Len(f)]
List(f) == SubSeq(f, 1, Len(f))

\* ord(c) of a symbol: Python compares strings by code point
ord(c) ==
    CASE c = "$" -> 36 [] c = "A" -> 65 [] c = "C" -> 67
      [] c = "G" -> 71 [] c = "N" -> 78 [] c = "T" -> 84

\* a < b for two Python strings
RECURSIVE PyStrLess(_, _)
PyStrLess(a, b) ==
    IF b = <<>> THEN FALSE
    ELSE IF a = <<>> THEN TRUE
    ELSE IF ord(Head(a)) # ord(Head(b)) THEN ord(Head(a)) < ord(Head(b))
    ELSE PyStrLess(Tail(a), Tail(b))

\* x < y for two Python tuples (str, int)
PyTupleLess(x, y) == PyStrLess(x[1], y[1]) \/ (x[1] = y[1] /\ x[2] < y[2])

\* int(a / b) for b > 0: true division, then truncation towards zero
TruncDiv(a, b) == IF a >= 0 THEN a \div b ELSE -((-a) \div b)

\* int(np.log2(m)) for m >= 1
RECURSIVE ILog2(_)
ILog2(m) == IF m <= 1 THEN 0 ELSE 1 + ILog2(m \div 2)

(* ------------------------ suffix_array_simple ------------------------- *)

\* sorted(...) of a list of pairwise distinct (str, int) tuples
sorted(pairs) ==
    [k \in 1..Len(pairs) |->
        CHOOSE x \in {pairs[i] : i \in 1..Len(pairs)} :
            Cardinality({j \in 1..Len(pairs) : PyTupleLess(pairs[j], x)}) = k - 1]

suffix_array_simple(reference_genome) ==
    LET n == Len(reference_genome)
        suffix_array ==
            sorted([i \in 1..n |-> <<SubSeq(reference_genome, i, n), i - 1>>])
    IN  [k \in 1..n |-> suffix_array[k][2]]

(* ---------------------- suffix_array_manbermyers ---------------------- *)

Keys == <<"$", "A", "C", "G", "N", "T">>

sort_chars(reference_genome) ==
    LET n == Len(reference_genome)
        counted == [c \in Symbols |->
                      Cardinality({i \in 1..n : reference_genome[i] = c})]
        RECURSIVE Cumulate(_, _)
        Cumulate(i, count) ==
            IF i > 5 THEN count
            ELSE LET count_i == [count EXCEPT ![At(Keys, i)] = @ + count[At(Keys, i - 1)]]
                 IN  Strict(count_i, Cumulate(i + 1, count_i))
        RECURSIVE Place(_, _, _)
        Place(i, count, order) ==
            IF i < 0 THEN order
            ELSE LET c == At(reference_genome, i)
                     count_i == [count EXCEPT ![c] = @ - 1]
                     order_i == Upd(order, count_i[c], i)
                 IN  Strict(<<count_i, order_i>>, Place(i - 1, count_i, order_i))
    IN  Place(n - 1, Cumulate(1, counted), Zeros(n))

compute_classes(reference_genome, order) ==
    LET n == Len(reference_genome)
        RECURSIVE Loop(_, _)
        Loop(i, classes) ==
            IF i >= n THEN classes
            ELSE LET classes_i ==
                         Upd(classes, At(order, i),
                             IF At(reference_genome, At(order, i))
                                  # At(reference_genome, At(order, i - 1))
                             THEN At(classes, At(order, i - 1)) + 1
                             ELSE At(classes, At(order, i - 1)))
                 IN  Strict(classes_i, Loop(i + 1, classes_i))
    IN  Loop(1, Upd(Zeros(n), At(order, 0), 0))

sort_doubled(reference_genome, step, order, classes) ==
    LET n == Len(reference_genome)
        counted == [j \in 1..n |->
                      Cardinality({i \in 1..n : classes[i] = j - 1})]
        RECURSIVE Cumulate(_, _)
        Cumulate(j, count) ==
            IF j >= n THEN count
            ELSE LET count_j == Upd(count, j, At(count, j) + At(count, j - 1))
                 IN  Strict(count_j, Cumulate(j + 1, count_j))
        RECURSIVE Place(_, _, _)
        Place(i, count, new_order) ==
            IF i < 0 THEN new_order
            ELSE LET start == (At(order, i) - step + n) % n
                     cl == At(classes, start)
                     count_i == Upd(count, cl, At(count, cl) - 1)
                     order_i == Upd(new_order, At(count_i, cl), start)
                 IN  Strict(<<count_i, order_i>>, Place(i - 1, count_i, order_i))
    IN  Place(n - 1, Cumulate(1, List(counted)), Zeros(n))

\* A list-valued function that raises IndexError yields this value, which is
\* no list the code returns (every list below holds numbers >= 0).
RaisedIndexError == <<-1>>

\* classes[mid] is read only when classes[cur] = classes[prev] (Python's
\* `or`); mid = cur + step is not reduced modulo n, so the read raises
\* IndexError when mid >= n.
updated_classes(order, classes, step) ==
    LET n == Len(order)
        RECURSIVE Loop(_, _)
        Loop(i, new_classes) ==
            IF i >= n THEN new_classes
            ELSE LET cur == At(order, i)
                     prev == At(order, i - 1)
                     mid == cur + step
                     mid_prev == (prev + step) % n
                     bumped == Upd(new_classes, cur, At(new_classes, prev) + 1)
                     same == Upd(new_classes, cur, At(new_classes, prev))
                 IN  IF At(classes, cur) # At(classes, prev)
                     THEN Strict(bumped, Loop(i + 1, bumped))
                     ELSE IF mid >= n THEN RaisedIndexError
                     ELSE IF At(classes, mid) # At(classes, mid_prev)
                     THEN Strict(bumped, Loop(i + 1, bumped))
                     ELSE Strict(same, Loop(i + 1, same))
    IN  Loop(1, Upd(Zeros(n), At(order, 0), 0))

suffix_array_manbermyers(reference_genome) ==
    LET n == Len(reference_genome)
        RECURSIVE Loop(_, _, _)
        Loop(step, order, classes) ==
            IF step >= n THEN order
            ELSE LET new_order == sort_doubled(reference_genome, step, order, classes)
                     new_classes == updated_classes(new_order, classes, step)
                 IN  IF new_classes = RaisedIndexError THEN RaisedIndexError
                     ELSE Strict(new_order, Loop(step * 2, new_order, new_classes))
        order0 == sort_chars(reference_genome)
        classes0 == compute_classes(reference_genome, order0)
    IN  Strict(<<order0, classes0>>, Loop(1, order0, classes0))

(* ------------------ suffix_array_kaerkkaeinensanders ------------------ *)

to_int(string) ==
    List([i \in 1..Len(string) |->
            CASE string[i] = "$" -> 1 [] string[i] = "A" -> 2 [] string[i] = "C" -> 3
              [] string[i] = "G" -> 4 [] string[i] = "N" -> 5 [] string[i] = "T" -> 6])

\* leq2 without its second key
leq2_first_key(a1, a2, b1, b2) == a1 <= b1

leq2(a1, a2, b1, b2) == a1 < b1 \/ (a1 = b1 /\ a2 <= b2)

leq3(a1, a2, a3, b1, b2, b3) == a1 < b1 \/ (a1 = b1 /\ leq2(a2, a3, b2, b3))

\* the slice x[k:]
SliceFrom(x, k) == SubSeq(x, k + 1, Len(x))

radix_pass(a, r, len_a, len_k) ==
    LET RECURSIVE Count(_, _)
        Count(i, c) ==
            IF i >= len_a THEN c
            ELSE LET c_i == Upd(c, At(r, At(a, i)), At(c, At(r, At(a, i))) + 1)
                 IN  Strict(c_i, Count(i + 1, c_i))
        RECURSIVE Sums(_, _, _)
        Sums(i, c, sum) ==
            IF i >= len_k + 1 THEN c
            ELSE LET c_i == Upd(c, i, sum)
                     sum_i == sum + At(c, i)
                 IN  Strict(<<c_i, sum_i>>, Sums(i + 1, c_i, sum_i))
        RECURSIVE Place(_, _, _)
        Place(i, c, b) ==
            IF i >= len_a THEN b
            ELSE LET key == At(r, At(a, i))
                     b_i == Upd(b, At(c, key), At(a, i))
                     c_i == Upd(c, key, At(c, key) + 1)
                 IN  Strict(<<b_i, c_i>>, Place(i + 1, c_i, b_i))
        counted == Count(0, Zeros(len_k + 1))
        summed == Sums(0, counted, 0)
    IN  Strict(<<a, r>>, Strict(counted, Strict(summed, Place(0, summed, Zeros(len_a)))))

\* s12 after the loop that collects the positions i with i % 3 # 0
sample_positions(n, n0, n1, n02) ==
    LET RECURSIVE Positions(_, _, _)
        Positions(i, j, s12) ==
            IF i >= n + n0 - n1 THEN s12
            ELSE IF i % 3 # 0
            THEN Let(Upd(s12, j, i), LAMBDA s12_i : Positions(i + 1, j + 1, s12_i))
            ELSE Positions(i + 1, j, s12)
    IN  Positions(0, 0, Zeros(n02 + 3))

\* name and s12 after the loop that names the sorted triples
name_triples(s, sa12, s12_in, n0, n02) ==
    LET RECURSIVE Names(_, _, _, _, _, _)
        Names(i, name, c0, c1, c2, s12) ==
            IF i >= n02 THEN [name |-> name, s12 |-> s12]
            ELSE LET q == At(sa12, i)
                     fresh == At(s, q) # c0 \/ At(s, q + 1) # c1 \/ At(s, q + 2) # c2
                     name_i == IF fresh THEN name + 1 ELSE name
                 IN  Let(IF q % 3 = 1 THEN Upd(s12, q \div 3, name_i)
                         ELSE Upd(s12, q \div 3 + n0, name_i),
                         LAMBDA s12_i :
                           Names(i + 1, name_i,
                                 IF fresh THEN At(s, q) ELSE c0,
                                 IF fresh THEN At(s, q + 1) ELSE c1,
                                 IF fresh THEN At(s, q + 2) ELSE c2,
                                 s12_i))
    IN  Strict(<<s, sa12, s12_in>>, Names(0, 0, -1, -1, -1, s12_in))

\* s12 after `s12[sa12[i]] = i + 1` for i in range(n02)
rank_sample(sa12, s12_in, n02) ==
    LET RECURSIVE Ranks(_, _)
        Ranks(i, s12) ==
            IF i >= n02 THEN s12
            ELSE Let(Upd(s12, At(sa12, i), i + 1), LAMBDA s12_i : Ranks(i + 1, s12_i))
    IN  Strict(<<sa12, s12_in>>, Ranks(0, s12_in))

\* sa12 after `sa12[s12[i] - 1] = i` for i in range(n02)
invert_sample(sa12_in, s12, n02) ==
    LET RECURSIVE Invert(_, _)
        Invert(i, sa12) ==
            IF i >= n02 THEN sa12
            ELSE Let(Upd(sa12, At(s12, i) - 1, i), LAMBDA sa12_i : Invert(i + 1, sa12_i))
    IN  Strict(<<sa12_in, s12>>, Invert(0, sa12_in))

\* s0 after the loop that collects 3 * sa12[i] for sa12[i] < n0
mod0_positions(sa12, n0, n02) ==
    LET RECURSIVE Mod0(_, _, _)
        Mod0(i, j, s0) ==
            IF i >= n02 THEN s0
            ELSE IF At(sa12, i) < n0
            THEN Let(Upd(s0, j, 3 * At(sa12, i)), LAMBDA s0_i : Mod0(i + 1, j + 1, s0_i))
            ELSE Mod0(i + 1, j, s0)
    IN  Strict(sa12, Mod0(0, 0, Zeros(n0)))

\* sa after the loop `while k < n` that merges sa0 and sa12
merge(s, sa0, sa12, s12, n, n0, n1, n02) ==
    LET Pos12(t) == IF At(sa12, t) < n0 THEN At(sa12, t) * 3 + 1
                    ELSE (At(sa12, t) - n0) * 3 + 2
        RECURSIVE Drain0(_, _, _)
        Drain0(p, kk, sa) ==
            IF p < n0
            THEN Let(Upd(sa, kk, At(sa0, p)), LAMBDA sa_i : Drain0(p + 1, kk + 1, sa_i))
            ELSE [p |-> p, k |-> kk, sa |-> sa]
        RECURSIVE Drain12(_, _, _)
        Drain12(t, kk, sa) ==
            IF t < n02
            THEN Let(Upd(sa, kk, Pos12(t)), LAMBDA sa_i : Drain12(t + 1, kk + 1, sa_i))
            ELSE [t |-> t, k |-> kk, sa |-> sa]
        First12(t, i, j) ==
            IF At(sa12, t) < n0
            THEN leq2(At(s, i), At(s12, At(sa12, t) + n0),
                      At(s, j), At(s12, j \div 3))
            ELSE leq3(At(s, i), At(s, i + 1), At(s12, At(sa12, t) - n0 + 1),
                      At(s, j), At(s, j + 1), At(s12, j \div 3 + n0))
        RECURSIVE Merge(_, _, _, _)
        Merge(p, t, kk, sa) ==
            IF kk >= n THEN sa
            ELSE Let(Pos12(t), LAMBDA i :
                 Let(At(sa0, p), LAMBDA j :
                 IF First12(t, i, j)
                 THEN Let(Upd(sa, kk, i), LAMBDA sa_i :
                      IF t + 1 = n02
                      THEN Let(Drain0(p, kk + 1, sa_i), LAMBDA d :
                           Merge(d.p, t + 1, d.k + 1, d.sa))
                      ELSE Merge(p, t + 1, kk + 1, sa_i))
                 ELSE Let(Upd(sa, kk, j), LAMBDA sa_i :
                      IF p + 1 = n0
                      THEN Let(Drain12(t, kk + 1, sa_i), LAMBDA d :
                           Merge(p + 1, d.t, d.k + 1, d.sa))
                      ELSE Merge(p + 1, t, kk + 1, sa_i))))
    IN  Strict(<<s, sa0, sa12, s12>>, Merge(0, n0 - n1, 0, Zeros(n)))

\* The body of suffix_array_kaerkkaeinensanders from `n0 = ...` on, s being
\* the list of integers followed by three zeros: the encoded reference of
\* the outermost call, the list s12 of names of a recursive call.
RECURSIVE dc3(_, _, _)
dc3(s, n, k) ==
    LET n0 == (n + 2) \div 3
        n1 == (n + 1) \div 3
        n2 == n \div 3
        n02 == n0 + n2
        \* from `j = 0` before the loop over sa12 to the end
        Finish(sa12, s12) ==
            Let(radix_pass(mod0_positions(sa12, n0, n02), s, n0, k), LAMBDA sa0 :
            merge(s, sa0, sa12, s12, n, n0, n1, n02))
        \* `if name < n02: ... else: ...`
        Sample(named, sa12) ==
            IF named.name < n02
            THEN Let(dc3(named.s12, n02, named.name), LAMBDA sa12_rec :
                 Finish(sa12_rec, rank_sample(sa12_rec, named.s12, n02)))
            ELSE Finish(invert_sample(sa12, named.s12, n02), named.s12)
    IN  Let(radix_pass(sample_positions(n, n0, n1, n02), SliceFrom(s, 2), n02, k)
              \o <<0, 0, 0>>, LAMBDA sa12_a :
        Let(radix_pass(sa12_a, SliceFrom(s, 1), n02, k) \o <<0, 0, 0>>, LAMBDA s12_b :
        Let(radix_pass(s12_b, s, n02, k) \o <<0, 0, 0>>, LAMBDA sa12_c :
        Let(name_triples(s, sa12_c, s12_b, n0, n02), LAMBDA named :
        Sample(named, sa12_c)))))

suffix_array_kaerkkaeinensanders(reference_genome, n, k) ==
    dc3(to_int(reference_genome) \o <<0, 0, 0>>, n, k)

(* --------------------------- construction ----------------------------- *)

\* x[i] of a Python list: defined for -len(x) <= i < len(x), a negative
\* index counting from the end; any other index raises IndexError
InRange(x, i) == -Len(x) <= i /\ i < Len(x)
Get(x, i) == IF i >= 0 THEN x[i + 1] ELSE x[Len(x) + i + 1]

\* the key None of the dictionary f
None == "None"

\* get_bwt that takes the symbol at SA[i] instead of the one before it
get_bwt_first_column(reference_genome, suffix_array) ==
    LET RECURSIVE Loop(_, _)
        Loop(i, bw_transform) ==
            IF i >= Len(suffix_array) THEN bw_transform
            ELSE Loop(i + 1, Append(bw_transform,
                                    At(reference_genome,
                                       At(suffix_array, i) % Len(reference_genome))))
    IN  Loop(0, <<>>)

get_bwt(reference_genome, suffix_array) ==
    LET RECURSIVE Loop(_, _)
        Loop(i, bw_transform) ==
            IF i >= Len(suffix_array) THEN bw_transform
            ELSE LET w == At(suffix_array, i)
                 IN  Loop(i + 1, Append(bw_transform,
                                   IF w = 0 THEN "$" ELSE At(reference_genome, w - 1)))
    IN  Loop(0, <<>>)

\* The loop that fills a rank bucket: bucket = [B[0]], and the running
\* number of 1-bits is appended after every index > 0 that step divides.
\* (suffix_array seeds bucket[0] with the bool SA[0] % compression == 0,
\* which is the first bit; True counts as 1.)
rank_buckets(bit_vec, step) ==
    LET RECURSIVE Loop(_, _, _)
        Loop(index, rank, bucket) ==
            IF index >= Len(bit_vec) THEN bucket
            ELSE LET r == rank + At(bit_vec, index)
                 IN  Loop(index + 1, r,
                          IF index > 0 /\ index % step = 0
                          THEN Append(bucket, r) ELSE bucket)
    IN  Loop(0, 0, <<At(bit_vec, 0)>>)

\* the three sequences suffix_array builds when compression_sa # 1
sample_suffix_array(suffix_array, compression, bucket_step_sa) ==
    LET RECURSIVE Loop(_, _, _)
        Loop(index, suffix_compressed, bits) ==
            IF index >= Len(suffix_array)
            THEN [sa |-> suffix_compressed, bitvector |-> bits]
            ELSE LET num == At(suffix_array, index)
                 IN  IF num % compression = 0
                     THEN Loop(index + 1, Append(suffix_compressed, num), Append(bits, 1))
                     ELSE Loop(index + 1, suffix_compressed, Append(bits, 0))
    IN  Let(Loop(0, <<>>, <<>>), LAMBDA sampled :
            [sa |-> sampled.sa, bitvector |-> sampled.bitvector,
             bucket_sa |-> rank_buckets(sampled.bitvector, bucket_step_sa)])

\* suffix_array(reference_genome, strategy, compression), self.compression_sa
\* and self.bucket_step_sa being set: the SA of the chosen builder, its BWT,
\* and the sampled SA with its bitmap and rank bucket (None when the SA is
\* stored whole).  raised: the builder raised IndexError.
suffix_array(reference_genome, strategy, compression, bucket_step_sa) ==
    Let(IF strategy = "Simple" THEN suffix_array_simple(reference_genome)
        ELSE IF strategy = "ManberMyers"
        THEN suffix_array_manbermyers(reference_genome)
        ELSE suffix_array_kaerkkaeinensanders(reference_genome,
                                              Len(reference_genome), 6),
        LAMBDA built :
    IF built = RaisedIndexError
    THEN [raised |-> TRUE]
    ELSE Let(get_bwt(reference_genome, built), LAMBDA code :
         IF compression = 1
         THEN [raised |-> FALSE, sa |-> built, bitvector |-> None,
               bucket_sa |-> None, bwt |-> code]
         ELSE Let(sample_suffix_array(built, compression, bucket_step_sa),
                  LAMBDA sampled :
              [raised |-> FALSE, sa |-> sampled.sa, bitvector |-> sampled.bitvector,
               bucket_sa |-> sampled.bucket_sa, bwt |-> code])))

\* _shifts_f with the counts of G and N accumulated in the order N, G
_shifts_f_n_before_g(reference_genome) ==
    LET shifts == [c \in Symbols |->
                     Cardinality({i \in 1..Len(reference_genome) :
                                     reference_genome[i] = c})]
        count_a == shifts["$"]
        count_c == count_a + shifts["A"]
        count_n == count_c + shifts["C"]
        count_g == count_n + shifts["N"]
        count_t == count_g + shifts["G"]
    IN  [c \in Symbols \cup {None} |->
            CASE c = "$" -> 0
              [] c = "A" -> count_a
              [] c = "C" -> count_c
              [] c = "G" -> count_g
              [] c = "N" -> count_n
              [] c = "T" -> count_t
              [] c = None -> Len(reference_genome)]

_shifts_f(reference_genome) ==
    LET shifts == [c \in Symbols |->
                     Cardinality({i \in 1..Len(reference_genome) :
                                     reference_genome[i] = c})]
        count_a == shifts["$"]
        count_c == count_a + shifts["A"]
        count_g == count_c + shifts["C"]
        count_n == count_g + shifts["G"]
        count_t == count_n + shifts["N"]
    IN  [c \in Symbols \cup {None} |->
            CASE c = "$" -> 0
              [] c = "A" -> count_a
              [] c = "C" -> count_c
              [] c = "G" -> count_g
              [] c = "N" -> count_n
              [] c = "T" -> count_t
              [] c = None -> Len(reference_genome)]

\* [f(x) for x in lst] and [x for x in lst if x in keep]
BitsOf(lst, zero) ==
    LET RECURSIVE Loop(_, _)
        Loop(i, out) ==
            IF i >= Len(lst) THEN out
            ELSE Loop(i + 1, Append(out, IF At(lst, i) \in zero THEN 0 ELSE 1))
    IN  Loop(0, <<>>)

Only(lst, keep) ==
    LET RECURSIVE Loop(_, _)
        Loop(i, out) ==
            IF i >= Len(lst) THEN out
            ELSE Loop(i + 1, IF At(lst, i) \in keep THEN Append(out, At(lst, i)) ELSE out)
    IN  Loop(0, <<>>)

\* the stride and bucket of bit vectors 1 .. 4: 0 and [] when the vector is
\* empty, else int(max(np.log2(len), 1))
child_step(bit_vec) == IF Len(bit_vec) > 0 THEN Max(ILog2(Len(bit_vec)), 1) ELSE 0
child_bucket(bit_vec) ==
    IF Len(bit_vec) > 0 THEN rank_buckets(bit_vec, child_step(bit_vec)) ELSE <<>>

create_bit_vecs(lbwt) ==
    Let(BitsOf(lbwt, {"N", "A"}), LAMBDA bit_vec0 :
    Let(ILog2(Len(bit_vec0)), LAMBDA bucket0_step :
    Let(rank_buckets(bit_vec0, bucket0_step), LAMBDA bucket0 :
    Let(Only(lbwt, {"C", "G", "T", "$"}), LAMBDA rbwt1 :
    Let(Only(lbwt, {"N", "A"}), LAMBDA lbwt1 :
    Let(BitsOf(lbwt1, {"N"}), LAMBDA bit_vec1 :
    Let(BitsOf(rbwt1, {"C", "G"}), LAMBDA bit_vec2 :
    Let(Only(rbwt1, {"C", "G"}), LAMBDA lbwt2 :
    Let(Only(rbwt1, {"T", "$"}), LAMBDA rbwt2 :
    Let(BitsOf(lbwt2, {"C"}), LAMBDA bit_vec3 :
    Let(BitsOf(rbwt2, {"T"}), LAMBDA bit_vec4 :
        [bits |-> <<bit_vec0, bit_vec1, bit_vec2, bit_vec3, bit_vec4>>,
         bucket_bits |-> <<bucket0, child_bucket(bit_vec1), child_bucket(bit_vec2),
                           child_bucket(bit_vec3), child_bucket(bit_vec4)>>,
         bucket_step_bits |-> <<bucket0_step, child_step(bit_vec1), child_step(bit_vec2),
                                child_step(bit_vec3), child_step(bit_vec4)>>])))))))))))

\* Structure [Parent, Me, Left_child, Right_Child]
meta ==
    << <<None, 0, 1, 2>>, <<0, 1, "N", "A">>, <<0, 2, 3, 4>>, <<2, 3, "C", "G">>,
       <<2, 4, "T", "$">>, <<1, "N", None, None>>, <<1, "A", None, None>>,
       <<1, "C", None, None>>, <<1, "G", None, None>>, <<1, "T", None, None>>,
       <<1, "$", None, None>> >>

\* 0 = left, 1 = right
codes ==
    [c \in Symbols |->
        CASE c = "N" -> <<0, 0>> [] c = "A" -> <<0, 1>> [] c = "C" -> <<1, 0, 0>>
          [] c = "G" -> <<1, 0, 1>> [] c = "T" -> <<1, 1, 0>> [] c = "$" -> <<1, 1, 1>>]

next_chars ==
    [c \in Symbols |->
        CASE c = "$" -> "A" [] c = "A" -> "C" [] c = "C" -> "G"
          [] c = "G" -> "N" [] c = "N" -> "T" [] c = "T" -> None]

Strategies == {"KaerkkaeinenSanders", "ManberMyers", "Simple"}

\* no attribute of the object is assigned yet
Unassigned == [x \in {} |-> 0]

\* the constructor's checks without the one of the strategy
raises_value_error_any_strategy(reference_genome_in, strategy_in, compression_sa_in) ==
    \/ Len(reference_genome_in) < 1
    \/ compression_sa_in < 1

\* the three checks at the head of the constructor: some ValueError is raised
raises_value_error(reference_genome_in, strategy_in, compression_sa_in) ==
    \/ strategy_in \notin Strategies
    \/ Len(reference_genome_in) < 1
    \/ compression_sa_in < 1

\* WaveletTree(reference_genome, strategy, compression_sa): raised tells
\* whether the constructor raised, self holds the attributes assigned when
\* it raised or returned, reference_genome is its local variable then.
WaveletTree(reference_genome_in, strategy_in, compression_sa_in) ==
    IF raises_value_error(reference_genome_in, strategy_in, compression_sa_in)
    THEN [raised |-> TRUE, self |-> Unassigned, reference_genome |-> reference_genome_in]
    ELSE
    Let(IF reference_genome_in[Len(reference_genome_in)] # "$"
        THEN Append(reference_genome_in, "$") ELSE reference_genome_in, LAMBDA ref :
    Let(ILog2(Len(ref)), LAMBDA bucket_step_sa :
    Let(suffix_array(ref, strategy_in, compression_sa_in, bucket_step_sa), LAMBDA built :
        IF built.raised
        THEN [raised |-> TRUE, reference_genome |-> ref,
              self |-> [compression_sa |-> compression_sa_in,
                        next_chars |-> next_chars,
                        bucket_step_sa |-> bucket_step_sa]]
        ELSE Let(create_bit_vecs(built.bwt), LAMBDA vecs :
             [raised |-> FALSE, reference_genome |-> ref,
              self |-> [compression_sa |-> compression_sa_in,
                        next_chars |-> next_chars,
                        bucket_step_sa |-> bucket_step_sa,
                        sa |-> built.sa,
                        bitvector |-> built.bitvector,
                        bucket_sa |-> built.bucket_sa,
                        f |-> _shifts_f(ref),
                        bits |-> vecs.bits,
                        bucket_bits |-> vecs.bucket_bits,
                        bucket_step_bits |-> vecs.bucket_step_bits,
                        meta |-> meta,
                        codes |-> codes,
                        n |-> Len(ref)]]))))

(* ------------------------------ the state ----------------------------- *)

\* reference_genome, strategy, compression_sa: the constructor's arguments
\*   (reference_genome is the constructor's local variable, which gets the
\*   sentinel appended);
\* phase: "new" before the constructor runs, then "built" or "raised";
\* self: the object's attributes;
\* call: the query that last returned (or raised), with its arguments and
\*   result, "idle" when the caller holds no result
VARIABLES reference_genome, strategy, compression_sa, phase, self, call

vars == <<reference_genome, strategy, compression_sa, phase, self, call>>

(* ------------------------------- queries ------------------------------ *)

\* what a call gives its caller: the value it returns, or the exception it
\* raises; "NonTermination" when the call never returns
Return(v) == [err |-> "ok", val |-> v]
Raise(e) == [err |-> e]

\* x = <call> followed by the statements F, which read x: an exception the
\* call raises passes to the caller
Then(r, F(_)) == IF r.err # "ok" THEN r ELSE F(r.val)

\* sum of x[i] for i in range(lo, hi); every i read is a valid index of x
RECURSIVE SumRange(_, _, _)
SumRange(x, lo, hi) == IF lo >= hi THEN 0 ELSE Get(x, lo) + SumRange(x, lo + 1, hi)
RangeReadable(x, lo, hi) == \A i \in lo..(hi - 1) : InRange(x, i)

rank_bit_node(index, node) ==
    LET step == At(self.bucket_step_bits, node)
        bucket_index == TruncDiv(index, step)
        vec == At(self.bits, node)
    IN  IF step = 0 THEN Raise("ZeroDivisionError")
        ELSE IF ~RangeReadable(vec, bucket_index * step + 1, index + 1)
        THEN Raise("IndexError")
        ELSE IF ~InRange(At(self.bucket_bits, node), bucket_index)
        THEN Raise("IndexError")
        ELSE IF ~InRange(vec, index) THEN Raise("IndexError")
        ELSE Let(SumRange(vec, bucket_index * step + 1, index + 1)
                   + Get(At(self.bucket_bits, node), bucket_index), LAMBDA rank_i :
             IF Get(vec, index) = 1 THEN Return(rank_i)
             ELSE Return(index + 1 - rank_i))

rank(char, index) ==
    LET code_list == self.codes[char]
        RECURSIVE Loop(_, _, _, _)
        Loop(k, curr_node, curr_index, last_rank) ==
            IF k >= Len(code_list) THEN Return(last_rank)
            ELSE Then(rank_bit_node(curr_index, curr_node), LAMBDA r :
                 Let(IF Get(At(self.bits, curr_node), curr_index) # At(code_list, k)
                     THEN curr_index - r + 1 ELSE r, LAMBDA rank_k :
                 IF rank_k = 0 THEN Return(0)
                 ELSE Loop(k + 1, At(At(self.meta, curr_node), 2 + At(code_list, k)),
                           rank_k - 1, rank_k)))
    IN  Loop(0, 0, index, 0)

\* the nodes whose children are symbols: type(self.meta[node][2]) is str
LeafParents == {1, 3, 4}

access(index, node) ==
    LET RECURSIVE Loop(_, _, _)
        Loop(curr_node, curr_index, bit) ==
            IF curr_node \in LeafParents
            THEN Return(At(At(self.meta, curr_node), 2 + bit))
            ELSE Let(At(At(self.meta, curr_node), 2 + bit), LAMBDA child :
                 Then(rank_bit_node(curr_index, curr_node), LAMBDA r :
                 IF ~InRange(At(self.bits, child), r - 1)
                 THEN Raise("IndexError")
                 ELSE Loop(child, r - 1, Get(At(self.bits, child), r - 1))))
    IN  IF node >= 5 THEN Return(At(At(self.meta, node), 1))
        ELSE IF node \in LeafParents THEN Return(At(At(self.meta, node), 2))
        ELSE IF ~InRange(At(self.bits, node), index) THEN Raise("IndexError")
        ELSE Loop(node, index, Get(At(self.bits, node), index))

rank_bit(index) ==
    LET step == self.bucket_step_sa
        bucket_index == TruncDiv(index, step)
    IN  IF self.compression_sa = 0 THEN Return(index + 1)
        ELSE IF step = 0 THEN Raise("ZeroDivisionError")
        ELSE IF self.compression_sa = 1 THEN Raise("TypeError")
        ELSE IF ~RangeReadable(self.bitvector, bucket_index * step + 1, index + 1)
        THEN Raise("IndexError")
        ELSE IF ~InRange(self.bucket_sa, bucket_index) THEN Raise("IndexError")
        ELSE Return(Get(self.bucket_sa, bucket_index)
                      + SumRange(self.bitvector, bucket_index * step + 1, index + 1))

\* self.sa[self.rank_bit(row) - 1] + counter
sampled_entry(row, counter) ==
    Then(rank_bit(row), LAMBDA r :
    IF ~InRange(self.sa, r - 1) THEN Raise("IndexError")
    ELSE Return(Get(self.sa, r - 1) + counter))

\* One LF step of the loops of get_sa and __str__, from row next_row with
\* its symbol next_char: the next row and its symbol.
lf_step(next_row, next_char) ==
    Then(rank(next_char, next_row), LAMBDA r :
    Let(r + self.f[next_char] - 1, LAMBDA row :
    Then(access(row, 0), LAMBDA c :
    Return([next_row |-> row, next_char |-> c]))))

get_sa(index) ==
    LET RECURSIVE Walk(_, _, _, _)
        \* seen: the (row, symbol) pairs the loop has been in; the loop's
        \* state is that pair, so meeting one again is a loop without end
        Walk(next_row, next_char, counter, seen) ==
            IF ~InRange(self.bitvector, next_row) THEN Raise("IndexError")
            ELSE IF Get(self.bitvector, next_row) = 1
            THEN sampled_entry(next_row, counter)
            ELSE IF <<next_row, next_char>> \in seen THEN Raise("NonTermination")
            ELSE Then(lf_step(next_row, next_char), LAMBDA step :
                 Walk(step.next_row, step.next_char, counter + 1,
                      seen \cup {<<next_row, next_char>>}))
    IN  IF self.compression_sa = 1
        THEN IF InRange(self.sa, index) THEN Return(Get(self.sa, index))
             ELSE Raise("IndexError")
        ELSE IF ~InRange(self.bitvector, index) THEN Raise("IndexError")
        ELSE IF Get(self.bitvector, index) = 1 THEN sampled_entry(index, 0)
        ELSE Then(access(index, 0), LAMBDA first_char :
             Walk(index, first_char, 0, {}))

\* The loop of get_sa from the row index: the row it stops on and the
\* number of its iterations (counter).
lf_walk(index) ==
    LET RECURSIVE Walk(_, _, _, _)
        Walk(next_row, next_char, counter, seen) ==
            IF ~InRange(self.bitvector, next_row) THEN Raise("IndexError")
            ELSE IF Get(self.bitvector, next_row) = 1
            THEN Return([next_row |-> next_row, counter |-> counter])
            ELSE IF <<next_row, next_char>> \in seen THEN Raise("NonTermination")
            ELSE Then(lf_step(next_row, next_char), LAMBDA step :
                 Walk(step.next_row, step.next_char, counter + 1,
                      seen \cup {<<next_row, next_char>>}))
    IN  IF ~InRange(self.bitvector, index) THEN Raise("IndexError")
        ELSE IF Get(self.bitvector, index) = 1
        THEN Return([next_row |-> index, counter |-> 0])
        ELSE Then(access(index, 0), LAMBDA first_char :
             Walk(index, first_char, 0, {}))

__len__ == self.n - 1

__str__ ==
    LET n == self.n - 1
        RECURSIVE Loop(_, _, _, _)
        Loop(i, next_row, next_char, original) ==
            IF i >= n - 1 THEN Return(original)
            ELSE Then(lf_step(next_row, next_char), LAMBDA step :
                 Loop(i + 1, step.next_row, step.next_char,
                      <<step.next_char>> \o original))
    IN  Then(access(0, 0), LAMBDA first_char :
        Loop(0, 0, first_char, <<first_char>>))

(* --------------------- backward search (spec 4.7) --------------------- *)

\* lo <- C[c] + rank(c, lo - 1), hi <- C[c] + rank(c, hi - 1) for the
\* symbols c of the pattern from right to left, from [0, n)
backward_search(pattern) ==
    LET RECURSIVE Loop(_, _, _)
        Loop(k, lo, hi) ==
            IF k < 0 THEN Return([lo |-> lo, hi |-> hi])
            ELSE Then(rank(At(pattern, k), lo - 1), LAMBDA rank_lo :
                 Then(rank(At(pattern, k), hi - 1), LAMBDA rank_hi :
                 Loop(k - 1, self.f[At(pattern, k)] + rank_lo,
                      self.f[At(pattern, k)] + rank_hi)))
    IN  Loop(Len(pattern) - 1, 0, self.n)

\* count(pattern) = hi - lo and locate(pattern) = { get_sa(k) : k in [lo, hi) },
\* the rows read in ascending order
locate(pattern) ==
    Then(backward_search(pattern), LAMBDA rows :
    Let([k \in rows.lo..(rows.hi - 1) |-> get_sa(k)], LAMBDA found :
    IF \E k \in DOMAIN found : found[k].err # "ok"
    THEN found[CHOOSE k \in DOMAIN found :
                 /\ found[k].err # "ok"
                 /\ \A m \in DOMAIN found : m < k => found[m].err = "ok"]
    ELSE Return([count |-> rows.hi - rows.lo,
                 positions |-> {found[k].val : k \in DOMAIN found}])))

(* ------------------------------ actions ------------------------------- *)

Idle == [op |-> "idle"]

\* the reference of the end-to-end scenario
Scenario == <<"A", "C", "G", "T">>

\* The references the caller passes: the strings over the alphabet up to
\* MaxLen symbols, those over {A, C} up to MaxRunLen symbols (the
\* Kaerkkaeinen-Sanders builder recurses from five symbols on), each with
\* and without the sentinel, and the strings up to MaxSentinels symbols
\* that hold the sentinel anywhere, and the reference of the scenario.
Bodies ==
    UNION {[1..k -> Alphabet] : k \in 0..MaxLen}
      \cup UNION {[1..k -> {"A", "C"}] : k \in 0..MaxRunLen}
      \cup {Scenario}
References ==
    Bodies \cup {Append(b, "$") : b \in Bodies}
           \cup UNION {[1..k -> {"$", "A"}] : k \in 1..MaxSentinels}

Init ==
    /\ reference_genome \in References
    /\ strategy \in Strategies \cup {"Other"}
    /\ compression_sa \in 0..MaxComp
    /\ phase = "new"
    /\ self = Unassigned
    /\ call = Idle

Construct ==
    /\ phase = "new"
    /\ LET made == WaveletTree(reference_genome, strategy, compression_sa)
       IN  /\ phase' = IF made.raised THEN "raised" ELSE "built"
           /\ self' = made.self
           /\ reference_genome' = made.reference_genome
    /\ UNCHANGED <<strategy, compression_sa, call>>

\* the indices and patterns the caller passes
Indices == (0 - IdxSlack)..(self.n - 1 + IdxSlack)
Patterns == UNION {[1..k -> Alphabet] : k \in 1..MaxPat}

\* the nodes that hold a bit vector: the indices of self.bits
Nodes == 0..4

\* an access that leaves the row it read in the attribute n
Access_keeping_row ==
    /\ phase = "built" /\ call = Idle
    /\ \E i \in Indices :
         /\ call' = [op |-> "access", index |-> i, ret |-> access(i, 0)]
         /\ self' = [self EXCEPT !.n = i]
    /\ UNCHANGED <<reference_genome, strategy, compression_sa, phase>>

Access ==
    /\ phase = "built" /\ call = Idle
    /\ \E i \in Indices :
         call' = [op |-> "access", index |-> i, ret |-> access(i, 0)]
    /\ UNCHANGED <<reference_genome, strategy, compression_sa, phase, self>>

Rank ==
    /\ phase = "built" /\ call = Idle
    /\ \E c \in Symbols, i \in Indices :
         call' = [op |-> "rank", char |-> c, index |-> i, ret |-> rank(c, i)]
    /\ UNCHANGED <<reference_genome, strategy, compression_sa, phase, self>>

GetSa ==
    /\ phase = "built" /\ call = Idle
    /\ \E i \in Indices :
         call' = [op |-> "get_sa", index |-> i, ret |-> get_sa(i)]
    /\ UNCHANGED <<reference_genome, strategy, compression_sa, phase, self>>

RankBit ==
    /\ phase = "built" /\ call = Idle
    /\ \E i \in Indices :
         call' = [op |-> "rank_bit", index |-> i, ret |-> rank_bit(i)]
    /\ UNCHANGED <<reference_genome, strategy, compression_sa, phase, self>>

RankBitNode ==
    /\ phase = "built" /\ call = Idle
    /\ \E i \in Indices, node \in Nodes :
         call' = [op |-> "rank_bit_node", index |-> i, node |-> node,
                  ret |-> rank_bit_node(i, node)]
    /\ UNCHANGED <<reference_genome, strategy, compression_sa, phase, self>>

LenStr ==
    /\ phase = "built" /\ call = Idle
    /\ call' = [op |-> "str", len |-> __len__, ret |-> __str__]
    /\ UNCHANGED <<reference_genome, strategy, compression_sa, phase, self>>

Locate ==
    /\ phase = "built" /\ call = Idle
    /\ \E pattern \in Patterns :
         call' = [op |-> "locate", pattern |-> pattern, ret |-> locate(pattern)]
    /\ UNCHANGED <<reference_genome, strategy, compression_sa, phase, self>>

\* the caller is done with the result
Done ==
    /\ call # Idle
    /\ call' = Idle
    /\ UNCHANGED <<reference_genome, strategy, compression_sa, phase, self>>

Next ==
    \/ Construct \/ Access \/ Rank \/ GetSa \/ RankBit \/ RankBitNode
    \/ LenStr \/ Locate \/ Done

Spec == Init /\ [][Next]_vars

(* ------------------------------ properties ---------------------------- *)

\* a reference over {A, C, G, N, T} with a single, trailing sentinel
WellFormed(ref) ==
    /\ Len(ref) >= 1
    /\ ref[Len(ref)] = "$"
    /\ \A i \in 1..(Len(ref) - 1) : ref[i] \in Alphabet

\* the suffix of ref that starts at position i (from 0)
Suffix(ref, i) == SubSeq(ref, i + 1, Len(ref))

\* the suffix array the chosen strategy builds for the reference
BuiltSA ==
    IF strategy = "Simple" THEN suffix_array_simple(reference_genome)
    ELSE IF strategy = "ManberMyers" THEN suffix_array_manbermyers(reference_genome)
    ELSE suffix_array_kaerkkaeinensanders(reference_genome, Len(reference_genome), 6)

\* BWT[i] = reference[SA[i] - 1], and "$" when SA[i] = 0
BWT(i) ==
    IF At(BuiltSA, i) = 0 THEN "$" ELSE At(reference_genome, At(BuiltSA, i) - 1)

\* the positions at which the pattern occurs in the reference
Occurrences(pattern) ==
    {i \in 0..(Len(reference_genome) - Len(pattern)) :
        SubSeq(reference_genome, i + 1, i + Len(pattern)) = pattern}

AllFields ==
    {"compression_sa", "next_chars", "bucket_step_sa", "sa", "bitvector",
     "bucket_sa", "f", "bits", "bucket_bits", "bucket_step_bits", "meta",
     "codes", "n"}

\* C1: for every reference over {A,C,G,N,T} with a single trailing sentinel
\* and length n >= 2, the three builders complete without an indexing
\* error and return the same suffix array.
C1_BuildersAgree ==
    (call = Idle /\ WellFormed(reference_genome) /\ Len(reference_genome) >= 2) =>
        LET simple == suffix_array_simple(reference_genome)
            mm == suffix_array_manbermyers(reference_genome)
            ks == suffix_array_kaerkkaeinensanders(reference_genome,
                                                   Len(reference_genome), 6)
        IN  /\ mm # RaisedIndexError
            /\ simple = mm
            /\ simple = ks

\* an index built by the Kaerkkaeinen-Sanders builder, which recursed for
\* this reference, holds the suffix array the other two builders return
C1_Witness ==
    /\ phase = "built" /\ call = Idle
    /\ strategy = "KaerkkaeinenSanders" /\ compression_sa = 1
    /\ reference_genome = <<"A", "A", "A", "A", "A", "$">>
    /\ self.sa = <<5, 4, 3, 2, 1, 0>>
    /\ self.sa = suffix_array_manbermyers(reference_genome)
    /\ self.sa = suffix_array_simple(reference_genome)

\* C2: for every reference over {A,C,G,N,T} terminated by the sentinel, the
\* suffix array of the Kaerkkaeinen-Sanders builder is a permutation of
\* [0, n), starts with n - 1, and lists the suffixes in ascending order.
C2_SortedPermutation ==
    (phase = "built" /\ call = Idle /\ strategy = "KaerkkaeinenSanders"
       /\ WellFormed(reference_genome)) =>
        LET n == Len(reference_genome)
            SA == BuiltSA
        IN  /\ Len(SA) = n
            /\ {At(SA, i) : i \in 0..(n - 1)} = 0..(n - 1)
            /\ At(SA, 0) = n - 1
            /\ \A i \in 0..(n - 2) :
                 ~PyStrLess(Suffix(reference_genome, At(SA, i + 1)),
                            Suffix(reference_genome, At(SA, i)))

\* C3: backward search is correct: for a reference and a pattern over
\* {A,C,G,N,T}, the positions { get_sa(k) : k in [lo, hi) } are the
\* positions at which the pattern occurs and hi - lo is their number.
C3_BackwardSearch ==
    (call.op = "locate" /\ WellFormed(reference_genome)) =>
        call.ret = Return([count |-> Cardinality(Occurrences(call.pattern)),
                           positions |-> Occurrences(call.pattern)])

\* C4: round trip: for a valid reference, any strategy and any
\* compression_sa >= 1, __str__ returns the reference without the sentinel
\* and its length is n - 1 = len(index).
C4_RoundTrip ==
    (call.op = "str" /\ WellFormed(reference_genome)) =>
        /\ call.ret = Return(SubSeq(reference_genome, 1, self.n - 1))
        /\ call.len = self.n - 1

\* C5: rank consistency: for every symbol c and every row 0 <= i < n,
\* rank(c, i) is the number of rows j in [0, i] with BWT[j] = c.
C5_RankConsistency ==
    (call.op = "rank" /\ WellFormed(reference_genome)
       /\ call.index \in 0..(self.n - 1)) =>
        call.ret = Return(Cardinality({j \in 0..call.index : BWT(j) = call.char}))

\* C6: sampled SA agreement: for every compression_sa >= 1 and every row
\* 0 <= i < n, get_sa(i) is SA[i] of the index built with compression_sa = 1.
C6_SampledAgreement ==
    (call.op = "get_sa" /\ WellFormed(reference_genome)
       /\ call.index \in 0..(self.n - 1)) =>
        call.ret = Return(At(WaveletTree(reference_genome, strategy, 1).self.sa,
                             call.index))

\* C7: for every row 0 <= i < n, access(i) at the root returns BWT[i].
C7_AccessIsBWT ==
    (call.op = "access" /\ WellFormed(reference_genome)
       /\ call.index \in 0..(self.n - 1)) =>
        call.ret = Return(BWT(call.index))

\* C8: after construction f["$"] = 0, f[c] is the number of reference
\* symbols (sentinel included) smaller than c in the order
\* $ < A < C < G < N < T, and the entry f[None] is n; so f[next(c)] - f[c]
\* is the number of occurrences of c.
C8_CTable ==
    phase = "built" =>
        LET ref == reference_genome
            Smaller(c) == {i \in 1..Len(ref) : ord(ref[i]) < ord(c)}
            Equal(c) == {i \in 1..Len(ref) : ref[i] = c}
        IN  /\ self.f["$"] = 0
            /\ \A c \in Alphabet : self.f[c] = Cardinality(Smaller(c))
            /\ self.f[None] = self.n
            /\ \A c \in Symbols :
                 self.f[self.next_chars[c]] - self.f[c] = Cardinality(Equal(c))

\* an index of a reference with two A, no C, G or N, and one T
C8_Witness ==
    /\ phase = "built" /\ self.n = 4
    /\ self.f["A"] = 1 /\ self.f["C"] = 3 /\ self.f["N"] = 3 /\ self.f["T"] = 3
    /\ self.f[None] = 4

\* C9: a zero-length reference, an unknown strategy and compression_sa < 1
\* each make the constructor raise before any attribute is assigned; a
\* construction that does not raise yields an index with all attributes.
C9_FailsAtomically ==
    /\ phase = "new" => self = Unassigned
    /\ (phase # "new"
          /\ (\/ Len(reference_genome) < 1
              \/ strategy \notin Strategies
              \/ compression_sa < 1)) =>
         (phase = "raised" /\ self = Unassigned)
    /\ phase = "built" => DOMAIN self = AllFields

\* the constructor raised for compression_sa = 0 alone
C9_Witness ==
    /\ phase = "raised" /\ self = Unassigned
    /\ compression_sa = 0 /\ strategy \in Strategies /\ Len(reference_genome) >= 1

\* C10: access(i), rank(c, i) and get_sa(i) with an index outside [0, n)
\* report an error instead of returning a value.
C10_QueryOutOfRange ==
    (call.op \in {"access", "rank", "get_sa"}
       /\ call.index \notin 0..(self.n - 1)) =>
        call.ret.err \notin {"ok", "NonTermination"}

\* C11: the index built on T = "ACGT", the sentinel being appended by the
\* constructor, has n = 5, the suffix array [4, 0, 1, 2, 3] (stored whole
\* when compression_sa = 1, returned row by row by get_sa otherwise), and
\* access(0), ..., access(4) spell the BWT "TACG$".
C11_Scenario ==
    (phase = "built" /\ reference_genome = Append(Scenario, "$")) =>
        /\ self = WaveletTree(Scenario, strategy, compression_sa).self
        /\ self.n = 5
        /\ BuiltSA = <<4, 0, 1, 2, 3>>
        /\ compression_sa = 1 => self.sa = <<4, 0, 1, 2, 3>>
        /\ \A i \in 0..4 : get_sa(i) = Return(At(<<4, 0, 1, 2, 3>>, i))
        /\ \A i \in 0..4 : access(i, 0) = Return(At(<<"T", "A", "C", "G", "$">>, i))
        /\ (call.op = "access" /\ call.index \in 0..4) =>
             call.ret = Return(At(<<"T", "A", "C", "G", "$">>, call.index))

\* C11, with the BWT that belongs to the suffix array [4, 0, 1, 2, 3]: the
\* index built on T = "ACGT", the sentinel being appended by the
\* constructor, has n = 5, the suffix array [4, 0, 1, 2, 3] (stored whole
\* when compression_sa = 1, returned row by row by get_sa otherwise), and
\* access(0), ..., access(4) spell the BWT "T$ACG".
C11_ScenarioBWT ==
    (phase = "built" /\ reference_genome = Append(Scenario, "$")) =>
        /\ self = WaveletTree(Scenario, strategy, compression_sa).self
        /\ self.n = 5
        /\ BuiltSA = <<4, 0, 1, 2, 3>>
        /\ compression_sa = 1 => self.sa = <<4, 0, 1, 2, 3>>
        /\ \A i \in 0..4 : get_sa(i) = Return(At(<<4, 0, 1, 2, 3>>, i))
        /\ \A i \in 0..4 : access(i, 0) = Return(At(<<"T", "$", "A", "C", "G">>, i))
        /\ (call.op = "access" /\ call.index \in 0..4) =>
             call.ret = Return(At(<<"T", "$", "A", "C", "G">>, call.index))

\* the index of "ACGT" built by the Kaerkkaeinen-Sanders builder, after
\* access(1) returned the second symbol of the BWT, the sentinel
C11_Witness ==
    /\ phase = "built" /\ reference_genome = <<"A", "C", "G", "T", "$">>
    /\ strategy = "KaerkkaeinenSanders" /\ compression_sa = 1
    /\ self.n = 5 /\ self.sa = <<4, 0, 1, 2, 3>>
    /\ call = [op |-> "access", index |-> 1, ret |-> Return("$")]

\* C12: queries are pure: no call of access, rank, get_sa, rank_bit,
\* rank_bit_node, __len__ or __str__ (nor any sequence of them) changes an
\* attribute of a constructed index, and the result a caller holds is the
\* result the query has on the index as it is now, whatever ran before.
C12_QueriesArePure ==
    /\ [][phase = "built" =>
             /\ self' = self
             /\ phase' = phase
             /\ reference_genome' = reference_genome]_vars
    /\ [](/\ call.op = "access" => call.ret = access(call.index, 0)
          /\ call.op = "rank" => call.ret = rank(call.char, call.index)
          /\ call.op = "get_sa" => call.ret = get_sa(call.index)
          /\ call.op = "rank_bit" => call.ret = rank_bit(call.index)
          /\ call.op = "rank_bit_node" =>
               call.ret = rank_bit_node(call.index, call.node)
          /\ call.op = "str" => (call.ret = __str__ /\ call.len = __len__))

\* get_sa walked two LF steps on a sampled index and returned; the index
\* is the one the constructor built
C12_Witness ==
    /\ phase = "built" /\ compression_sa = 3 /\ strategy = "ManberMyers"
    /\ reference_genome = <<"A", "C", "G", "T", "$">>
    /\ call = [op |-> "get_sa", index |-> 3, ret |-> Return(2)]
    /\ self = WaveletTree(reference_genome, strategy, compression_sa).self

\* the number of 1-bits of a bit vector
popcount(B) == Cardinality({i \in 1..Len(B) : B[i] = 1})

\* C13: a rank query at index -1 returns 0, for rank_bit, rank_bit_node
\* and rank(c, -1) of every symbol c; and the 1-rank at the last index
\* m - 1 of a bit vector is popcount(B), for the sampling bitmap
\* (rank_bit) and for each node's bit vector (rank_bit_node, which returns
\* the 1-rank where the bit is 1 and index + 1 - 1-rank where it is 0).
C13_RankEdgeCases ==
    /\ (call.op \in {"rank", "rank_bit", "rank_bit_node"} /\ call.index = -1) =>
         call.ret = Return(0)
    /\ (call.op = "rank_bit" /\ self.compression_sa > 1
          /\ call.index = Len(self.bitvector) - 1) =>
         call.ret = Return(popcount(self.bitvector))
    /\ (call.op = "rank_bit_node" /\ Len(At(self.bits, call.node)) > 0
          /\ call.index = Len(At(self.bits, call.node)) - 1) =>
         /\ call.ret.err = "ok"
         /\ popcount(At(self.bits, call.node))
              = IF Get(At(self.bits, call.node), call.index) = 1
                THEN call.ret.val ELSE call.index + 1 - call.ret.val

\* the number of 1-bits in B[lo .. hi], both ends included
ones(B, lo, hi) == Cardinality({i \in lo..hi : At(B, i) = 1})

\* bucket is the rank dictionary of the bit vector B for the stride s; an
\* empty bit vector has an empty bucket
RankDictionary(B, bucket, s) ==
    IF Len(B) = 0 THEN bucket = <<>>
    ELSE /\ s >= 1
         /\ Len(bucket) = (Len(B) + s - 1) \div s
         /\ At(bucket, 0) = At(B, 0)
         /\ \A j \in 0..(Len(bucket) - 1) : At(bucket, j) = ones(B, 0, j * s)
         /\ \A i \in 0..(Len(B) - 1) :
              At(bucket, i \div s) + ones(B, (i \div s) * s + 1, i) = ones(B, 0, i)

\* C14: for the sampling bitmap and each of the five bit vectors of the
\* wavelet tree (length m, stride s) the bucket has ceil(m / s) entries,
\* bucket[0] = B[0], bucket[j] is the number of 1-bits in B[0 .. j * s], and
\* for every 0 <= i < m, bucket[i div s] plus the number of 1-bits in
\* B[(i div s) * s + 1 .. i] is the number of 1-bits in B[0 .. i].
C14_RankDictionaries ==
    phase = "built" =>
        /\ \A node \in Nodes :
             RankDictionary(At(self.bits, node), At(self.bucket_bits, node),
                            At(self.bucket_step_bits, node))
        /\ self.compression_sa > 1 =>
             RankDictionary(self.bitvector, self.bucket_sa, self.bucket_step_sa)

\* C15: in every index the constructor returns, the one of the reference
\* "$" included, every non-empty bit vector of length m (the sampling
\* bitmap and the vectors of the nodes 0 .. 4) has the stride
\* max(floor(log2 m), 1) >= 1, and no rank query on such a vector (nor an
\* access, rank or get_sa of a row 0 <= i < n) divides by a zero stride.
C15_StrideAtLeastOne ==
    /\ phase = "built" =>
         /\ \A node \in Nodes :
              Len(At(self.bits, node)) > 0 =>
                  /\ At(self.bucket_step_bits, node)
                       = Max(ILog2(Len(At(self.bits, node))), 1)
                  /\ At(self.bucket_step_bits, node) >= 1
         /\ self.compression_sa > 1 =>
              /\ self.bucket_step_sa = Max(ILog2(Len(self.bitvector)), 1)
              /\ self.bucket_step_sa >= 1
    /\ (call.op \in {"access", "rank", "get_sa"} /\ call.index \in 0..(self.n - 1)) =>
         call.ret.err # "ZeroDivisionError"
    /\ (call.op = "rank_bit" /\ self.compression_sa > 1) =>
         call.ret.err # "ZeroDivisionError"
    /\ (call.op = "rank_bit_node" /\ Len(At(self.bits, call.node)) > 0) =>
         call.ret.err # "ZeroDivisionError"

\* C16: for every row 0 <= i < n with c = access(i), the row
\* LF(i) = f[c] + rank(c, i) - 1, which the loops of get_sa and __str__
\* step to, lies in [0, n) and SA[LF(i)] = (SA[i] - 1) mod n; the row with
\* SA[i] = 0, whose symbol is the sentinel, maps to row 0.
C16_LFStep ==
    (call.op = "access" /\ call.index \in 0..(self.n - 1)
       /\ WellFormed(reference_genome)) =>
        /\ call.ret.err = "ok"
        /\ (At(BuiltSA, call.index) = 0) = (call.ret.val = "$")
        /\ LET step == lf_step(call.index, call.ret.val)
               r == rank(call.ret.val, call.index)
           IN  /\ step.err = "ok" /\ r.err = "ok"
               /\ step.val.next_row = self.f[call.ret.val] + r.val - 1
               /\ step.val.next_row \in 0..(self.n - 1)
               /\ At(BuiltSA, step.val.next_row)
                    = (At(BuiltSA, call.index) - 1) % self.n
               /\ At(BuiltSA, call.index) = 0 => step.val.next_row = 0

\* C17: with compression_sa > 1, the loop of get_sa(i) ends for every row
\* 0 <= i < n, after SA[i] mod compression_sa iterations (at most
\* compression_sa - 1 and at most n - 1), on the row of the suffix
\* SA[i] - (SA[i] mod compression_sa), without passing the row whose SA
\* value is 0; that row's sampling bit is set and rank_bit(row) - 1 is an
\* index of the sampled list sa, whose entry plus the iterations get_sa
\* returns.
C17_WalkTerminates ==
    (call.op = "get_sa" /\ self.compression_sa > 1
       /\ call.index \in 0..(self.n - 1) /\ WellFormed(reference_genome)) =>
        LET walk == lf_walk(call.index)
            steps == At(BuiltSA, call.index) % self.compression_sa
        IN  /\ walk.err = "ok"
            /\ walk.val.counter = steps
            /\ steps <= self.compression_sa - 1 /\ steps <= self.n - 1
            /\ walk.val.next_row \in 0..(self.n - 1)
            /\ At(BuiltSA, walk.val.next_row) = At(BuiltSA, call.index) - steps
            /\ Get(self.bitvector, walk.val.next_row) = 1
            /\ LET r == rank_bit(walk.val.next_row)
               IN  /\ r.err = "ok"
                   /\ r.val - 1 \in 0..(Len(self.sa) - 1)
            /\ call.ret = sampled_entry(walk.val.next_row, walk.val.counter)
            /\ call.ret.err = "ok"
====
